---- MODULE Spec2Model ----
(***************************************************************************)
(* `cargo upgrade` (src/bin/upgrade/main.rs): the manifest upgrade engine. *)
(* One run of the binary is a sequential program; its position is pc.      *)
(* The registry (get_latest_dependency), the manifest document             *)
(* (cargo_edit::Manifest) and workspace discovery (cargo_metadata) are     *)
(* collaborators: each call of one is a step that may fail, and a registry *)
(* lookup may answer differently every time it is asked.                   *)
(***************************************************************************)
EXTENDS Integers, Sequences, FiniteSets, TLC

VARIABLES
    flag_all,      \* Args.flag_all
    only_update,   \* Args.flag_dependency, a Vec<String>: order and repeats kept
    disk,          \* the manifest files of the workspace, by manifest path
    disk0,         \* the files as they were when the session started
    pc,            \* position of the run
    output,        \* the Result of the run: "running", "Ok" or an error
    exit_code,     \* the status the process exited with; -1 while it has not exited
    stderr,        \* the lines written to the error stream
    todo,          \* the names cache construction iterates over
    ci,            \* position in todo
    new_deps,      \* the HashMap<String, Dependency> under construction / built
    manifests,     \* paths returned by get_workspace_manifests
    mi,            \* position in manifests
    manifest,      \* the Manifest opened by the updater (in memory)
    sections,      \* the value of manifest.get_sections() taken before the loop
    si, ei,        \* position of the traversal in sections
    lookups,       \* history: every call of get_latest_dependency, with its answer
    opened,        \* history: every manifest path given to Manifest::open
    written,       \* history: every manifest path written back
    prev,          \* the finished direct run a session's workspace run is compared with
    dep,           \* the raw value handed to is_version_dependency (filter harness)
    verdict        \* what is_version_dependency answered for dep

vars == <<flag_all, only_update, disk, disk0, pc, output, exit_code, stderr, todo, ci, new_deps,
          manifests, mi, manifest, sections, si, ei, lookups, opened, written,
          prev, dep, verdict>>

(***************************************************************************)
(* Bounds of the model.                                                    *)
(***************************************************************************)
MaxManifests == 2     \* packages in the workspace

NameOrder == <<"a", "b">>
Names    == {NameOrder[i] : i \in 1..Len(NameOrder)}
SectionPaths == <<"dependencies", "dev-dependencies">>

\* dependency sections of one manifest
MaxSections == Len(SectionPaths)
\* entries declared in the whole workspace: enough for a name to be declared twice
\* beside another name
MaxEntries  == Cardinality(Names) + 1
\* length of --dependency: enough to name every dependency, or one of them twice
MaxSel      == Cardinality(Names)
Versions == {"1.0", "2.0"}
OldReq   == "0.1"
Fail     == "fail"
NoDep    == "none"

SeqsUpTo(S, n) == UNION {[1..k -> S] : k \in 0..n}

RECURSIVE SumLen(_)
SumLen(ss) == IF ss = <<>> THEN 0 ELSE Len(Head(ss)) + SumLen(Tail(ss))

RECURSIVE Flatten(_)
Flatten(ss) == IF ss = <<>> THEN <<>> ELSE Head(ss) \o Flatten(Tail(ss))

Range(s) == {s[i] : i \in 1..Len(s)}

(***************************************************************************)
(* Data: a raw TOML dependency value, a dependency entry, a manifest.      *)
(* A value is a bare string (table = FALSE) or a table with a set of keys; *)
(* req is the version requirement it carries ("" when it carries none).    *)
(***************************************************************************)
Keys  == {"git", "path", "version", "features", "optional", "branch"}
NoReq == ""

Str(req)  == [table |-> FALSE, keys |-> {}, req |-> req]
Tbl(keys) == [table |-> TRUE, keys |-> keys,
              req |-> IF "version" \in keys THEN OldReq ELSE NoReq]

\* the values the manifests of the workspace start with
InitValues == {Str(OldReq), Tbl({"version"}), Tbl({"path"})}
\* the values the eligibility filter is tried on
AllValues  == {Str(r) : r \in {OldReq} \cup Versions} \cup {Tbl(k) : k \in SUBSET Keys}

Entry == [name : Names, value : InitValues]

\* the entry lists of one table: keys of a TOML table are distinct, and the model
\* lists them in the order of NameOrder
NameIndex(n) == CHOOSE i \in 1..Len(NameOrder) : NameOrder[i] = n
Tables(n) == {t \in SeqsUpTo(Entry, n) :
                 \A i, j \in 1..Len(t) : i < j => NameIndex(t[i].name) < NameIndex(t[j].name)}

\* lists of k non-empty tables holding at most n entries together
RECURSIVE TableLists(_, _)
TableLists(k, n) ==
    IF k = 0 THEN {<<>>}
    ELSE UNION {{<<t>> \o r : r \in TableLists(k - 1, n - Len(t))} :
                   t \in Tables(n) \ {<<>>}}

\* a manifest: its dependency sections in declaration order
MkManifest(ts) == [i \in 1..Len(ts) |-> [path |-> SectionPaths[i], entries |-> ts[i]]]
ManifestsUpTo(n) == {MkManifest(ts) : ts \in UNION {TableLists(k, n) : k \in 0..MaxSections}}

EntryCount(m) == SumLen([i \in 1..Len(m) |-> m[i].entries])

\* workspaces of k packages declaring at most n entries together
RECURSIVE Workspaces(_, _)
Workspaces(k, n) ==
    IF k = 0 THEN {<<>>}
    ELSE UNION {{<<m>> \o w : w \in Workspaces(k - 1, n - EntryCount(m))} :
                   m \in ManifestsUpTo(n)}

Selectors == SeqsUpTo(Names, MaxSel)


(***************************************************************************)
(* The eligibility filter and the selector test (main.rs 76-82, 94, 120).  *)
(***************************************************************************)
is_version_dependency_git_only(d) ==
    IF d.table
    THEN ~("git" \in d.keys)
    ELSE TRUE

is_version_dependency_either(d) ==
    IF d.table
    THEN ~("git" \in d.keys) \/ ~("path" \in d.keys)
    ELSE TRUE

is_version_dependency(d) ==
    IF d.table
    THEN ~("git" \in d.keys) /\ ~("path" \in d.keys)
    ELSE TRUE

passes_only_update_first(only, name) == only = <<>> \/ name = only[1]

\* only_update.is_empty() || only_update.contains(name)
passes_only_update(only, name) == only = <<>> \/ name \in Range(only)

\* the condition of the `if` in both updaters
should_update(only, name, old_value) ==
    passes_only_update(only, name) /\ is_version_dependency(old_value)

(***************************************************************************)
(* The collaborators, as the program uses them.                            *)
(***************************************************************************)
\* a cargo_edit::Dependency as get_latest_dependency(name, _) returns it
Dependency(name, version) == [name |-> name, version |-> version]

\* what one registry lookup can answer
Answers == Versions \cup {Fail}

\* Manifest::get_sections: (table_path, table) for every dependency section
get_sections(m) == [i \in 1..Len(m) |-> <<m[i].path, m[i].entries>>]

\* writing a Dependency into an existing raw value
merge_dependencies(old, d) ==
    IF old.table
    THEN [old EXCEPT !.keys = @ \cup {"version"}, !.req = d.version]
    ELSE Str(d.version)

\* Manifest::update_table_entry: the entry named d.name of the table at
\* table_path takes d's version; nothing else of the document changes
update_table_entry(m, table_path, d) ==
    [i \in 1..Len(m) |->
        IF m[i].path = table_path
        THEN [m[i] EXCEPT !.entries =
                 [j \in 1..Len(@) |->
                     IF @[j].name = d.name
                     THEN [@[j] EXCEPT !.value = merge_dependencies(@, d)]
                     ELSE @[j]]]
        ELSE m[i]]

\* cargo metadata: package.dependencies, the names a package declares
package_dependencies(m) ==
    Flatten([i \in 1..Len(m) |-> [j \in 1..Len(m[i].entries) |-> m[i].entries[j].name]])

\* .packages.iter().flat_map(|package| package.dependencies.to_owned())
all_dependencies(d) == Flatten([p \in 1..Len(d) |-> package_dependencies(d[p])])

\* the same paths, last package first
manifest_paths_reversed(d) == [p \in 1..Len(d) |-> Len(d) + 1 - p]

\* .packages.iter().map(|p| p.manifest_path.clone())
manifest_paths(d) == [p \in 1..Len(d) |-> p]

EmptyMap == [n \in {} |-> NoDep]
\* an insert that leaves the map as it was
insert_dropped(map, name, d) == map

insert(map, name, d) == [n \in DOMAIN map \cup {name} |-> IF n = name THEN d ELSE map[n]]


NoRun == [output |-> "none", disk |-> <<>>, lookups |-> <<>>]

\* the traversal's next position: the first entry at or after entry e of section s
RECURSIVE NextPos(_, _, _)
NextPos(secs, s, e) ==
    IF s > Len(secs) THEN <<s, 1>>
    ELSE IF e <= Len(secs[s][2]) THEN <<s, e>>
    ELSE NextPos(secs, s + 1, 1)

\* In a comparison run (prev set) the file system and discovery are healthy and
\* the registry repeats what it answered for a name before.
Healthy == prev # NoRun
IoOutcomes == IF Healthy THEN {TRUE} ELSE BOOLEAN
Asked(name) == {l \in Range(prev.lookups) \cup Range(lookups) : l.name = name}
RegistryAnswers(name) ==
    IF Healthy /\ Asked(name) # {}
    THEN {l.answer : l \in Asked(name)}
    ELSE Answers

argVars   == <<flag_all, only_update>>
cacheVars == <<todo, ci, new_deps>>
travVars  == <<manifest, sections, si, ei>>
histVars  == <<lookups, opened, written>>
harnessVars == <<prev, dep, verdict>>

resultVars == <<output, exit_code, stderr>>

\* the same end of main, but exiting with status 0 whatever the Result
Stop_exit_zero(result) ==
    /\ pc' = "done"
    /\ output' = result
    /\ exit_code' = 0
    /\ stderr' = IF result = "Ok" THEN <<>> ELSE <<"Command failed due to unhandled error", result>>

\* the end of the run: the Result comes back to main, which returns on Ok (status 0)
\* and on Err reports the error on stderr and calls process::exit(1) (235-248);
\* a panic is reported by the runtime, which exits with status 101
Stop(result) ==
    /\ pc' = "done"
    /\ output' = result
    /\ exit_code' = CASE result = "Ok"    -> 0
                     [] result = "panic" -> 101
                     [] OTHER            -> 1
    /\ stderr' = CASE result = "Ok"    -> <<>>
                  [] result = "panic" -> <<"thread 'main' panicked">>
                  [] OTHER            -> <<"Command failed due to unhandled error", result>>

(***************************************************************************)
(* main (211-250): dispatch on --all.                                      *)
(***************************************************************************)
main ==
    /\ pc = "main"
    /\ IF flag_all
       THEN IF only_update # <<>>
            THEN /\ pc' = "get_specified_new_deps"
                 /\ todo' = only_update
                 /\ UNCHANGED <<resultVars, manifests, mi>>
            ELSE \* get_all_new_deps starts with a metadata call
                 \E ok \in IoOutcomes :
                    IF ok
                    THEN /\ todo' = all_dependencies(disk)
                         /\ pc' = IF todo' = <<>> THEN "get_workspace_manifests"
                                  ELSE "get_all_new_deps"
                         /\ UNCHANGED <<resultVars, manifests, mi>>
                    ELSE /\ Stop("Err(Failed to get metadata)")
                         /\ UNCHANGED <<todo, manifests, mi>>
       ELSE /\ pc' = "update_manifest"
            /\ manifests' = <<1>>
            /\ mi' = 1
            /\ UNCHANGED <<resultVars, todo>>
    /\ UNCHANGED <<argVars, disk, disk0, ci, new_deps, travVars, histVars, harnessVars>>

(***************************************************************************)
(* Cache construction.  Both builders call get_latest_dependency(name, _)? *)
(* for a name and insert the answer; `?` ends the construction with the    *)
(* error and the map built so far is dropped.                              *)
(***************************************************************************)
cache_lookup_skip_failed(name) ==
    \E ans \in RegistryAnswers(name) :
       /\ lookups' = Append(lookups, [name |-> name, answer |-> ans])
       /\ new_deps' = IF ans = Fail THEN new_deps
                      ELSE insert(new_deps, name, Dependency(name, ans))
       /\ ci' = ci + 1
       /\ pc' = IF ci' > Len(todo) THEN "get_workspace_manifests" ELSE pc
       /\ UNCHANGED resultVars

cache_lookup(name) ==
    \E ans \in RegistryAnswers(name) :
       /\ lookups' = Append(lookups, [name |-> name, answer |-> ans])
       /\ IF ans = Fail
          THEN /\ Stop("Err(registry)")
               /\ new_deps' = EmptyMap
               /\ UNCHANGED ci
          ELSE /\ new_deps' = insert(new_deps, name, Dependency(name, ans))
               /\ ci' = ci + 1
               /\ pc' = IF ci' > Len(todo) THEN "get_workspace_manifests" ELSE pc
               /\ UNCHANGED resultVars

(***************************************************************************)
(* get_specified_new_deps (176-189): one lookup per element of the slice,  *)
(* collected into a HashMap.                                               *)
(***************************************************************************)
get_specified_new_deps ==
    /\ pc = "get_specified_new_deps"
    /\ ci <= Len(todo)
    /\ cache_lookup(todo[ci])
    /\ UNCHANGED <<argVars, disk, disk0, todo, manifests, mi, travVars, opened, written,
                   harnessVars>>

(***************************************************************************)
(* get_all_new_deps (150-173): for every dependency of every package, a    *)
(* lookup unless the map already has the name.                             *)
(***************************************************************************)
contains_key_never(map, name) == FALSE

\* new_deps.contains_key(&dependency.name)
contains_key(map, name) == name \in DOMAIN map

get_all_new_deps ==
    /\ pc = "get_all_new_deps"
    /\ ci <= Len(todo)
    /\ IF contains_key(new_deps, todo[ci])
       THEN /\ ci' = ci + 1
            /\ pc' = IF ci' > Len(todo) THEN "get_workspace_manifests" ELSE pc
            /\ UNCHANGED <<resultVars, new_deps, lookups>>
       ELSE cache_lookup(todo[ci])
    /\ UNCHANGED <<argVars, disk, disk0, todo, manifests, mi, travVars, opened, written,
                   harnessVars>>

(***************************************************************************)
(* get_workspace_manifests (137-146), called by update_workspace_manifests *)
(* (202) once the cache is built.                                          *)
(***************************************************************************)
get_workspace_manifests ==
    /\ pc = "get_workspace_manifests"
    /\ \E ok \in IoOutcomes :
          IF ok
          THEN /\ manifests' = manifest_paths(disk)
               /\ mi' = 1
               /\ pc' = "update_manifest_from_cache"
               /\ UNCHANGED resultVars
          ELSE /\ Stop("Err(Failed to get metadata)")
               /\ UNCHANGED <<manifests, mi>>
    /\ UNCHANGED <<argVars, disk, disk0, cacheVars, travVars, histVars, harnessVars>>

(***************************************************************************)
(* The two updaters.  update_manifest (84-108) and                         *)
(* update_manifest_from_cache (110-134) open the manifest, walk the        *)
(* sections get_sections returned, and write the manifest back.            *)
(***************************************************************************)
\* Manifest::open(&manifest_path)?  and  manifest.get_sections()
Open(fn) ==
    /\ pc = fn
    /\ opened' = Append(opened, manifests[mi])
    /\ \E ok \in IoOutcomes :
          IF ok
          THEN /\ manifest' = disk[manifests[mi]]
               /\ sections' = get_sections(manifest')
               /\ si' = NextPos(sections', 1, 1)[1]
               /\ ei' = NextPos(sections', 1, 1)[2]
               /\ pc' = IF si' > Len(sections') THEN fn \o ".write" ELSE fn \o ".entries"
               /\ UNCHANGED resultVars
          ELSE /\ Stop("Err(open)")
               /\ UNCHANGED travVars
    /\ UNCHANGED <<argVars, disk, disk0, cacheVars, manifests, mi, lookups, written,
                   harnessVars>>

\* the loops move on to the next (name, old_value)
Advance(fn) ==
    /\ si' = NextPos(sections, si, ei + 1)[1]
    /\ ei' = NextPos(sections, si, ei + 1)[2]
    /\ pc' = IF si' > Len(sections) THEN fn \o ".write" ELSE pc
    /\ UNCHANGED <<resultVars, sections>>

\* manifest.update_table_entry(&table_path, &latest_version)?
UpdateEntry(fn, table_path, latest_version) ==
    \E ok \in IoOutcomes :
       IF ok
       THEN /\ manifest' = update_table_entry(manifest, table_path, latest_version)
            /\ Advance(fn)
       ELSE /\ Stop("Err(update_table_entry)")
            /\ UNCHANGED travVars

\* Manifest::find_file(&manifest_path)?  and  manifest.write_to_file(&mut file)
WriteOutcomes == IF Healthy THEN {"Ok"} ELSE {"Ok", "Err(find_file)", "Err(write_to_file)"}

\* the inner loop's body with a lookup per entry (93-101)
LookupAndUpdate(fn) ==
    /\ pc = fn \o ".entries"
    /\ LET table_path == sections[si][1]
           name       == sections[si][2][ei].name
           old_value  == sections[si][2][ei].value
       IN  IF should_update(only_update, name, old_value)
           THEN \E ans \in RegistryAnswers(name) :
                   /\ lookups' = Append(lookups, [name |-> name, answer |-> ans])
                   /\ IF ans = Fail
                      THEN Stop("Err(registry)") /\ UNCHANGED travVars
                      ELSE UpdateEntry(fn, table_path, Dependency(name, ans))
           ELSE Advance(fn) /\ UNCHANGED <<manifest, lookups>>
    /\ UNCHANGED <<argVars, disk, disk0, cacheVars, manifests, mi, opened, written,
                   harnessVars>>

\* the same loop body, but asking the registry once per name: an answer already
\* received is used again
update_manifest_entry_remembering ==
    /\ pc = "update_manifest.entries"
    /\ LET table_path == sections[si][1]
           name       == sections[si][2][ei].name
           old_value  == sections[si][2][ei].value
           known      == {i \in 1..Len(lookups) : lookups[i].name = name}
       IN  IF should_update(only_update, name, old_value)
           THEN IF known # {}
                THEN /\ UpdateEntry("update_manifest", table_path,
                                    Dependency(name, lookups[CHOOSE i \in known : TRUE].answer))
                     /\ UNCHANGED lookups
                ELSE \E ans \in RegistryAnswers(name) :
                        /\ lookups' = Append(lookups, [name |-> name, answer |-> ans])
                        /\ IF ans = Fail
                           THEN Stop("Err(registry)") /\ UNCHANGED travVars
                           ELSE UpdateEntry("update_manifest", table_path,
                                            Dependency(name, ans))
           ELSE Advance("update_manifest") /\ UNCHANGED <<manifest, lookups>>
    /\ UNCHANGED <<argVars, disk, disk0, cacheVars, manifests, mi, opened, written,
                   harnessVars>>

\* the same loop body, but saving the file after every entry it updates
update_manifest_entry_saving ==
    /\ pc = "update_manifest.entries"
    /\ LET table_path == sections[si][1]
           name       == sections[si][2][ei].name
           old_value  == sections[si][2][ei].value
       IN  IF should_update(only_update, name, old_value)
           THEN \E ans \in RegistryAnswers(name) :
                   /\ lookups' = Append(lookups, [name |-> name, answer |-> ans])
                   /\ IF ans = Fail
                      THEN Stop("Err(registry)") /\ UNCHANGED <<travVars, disk>>
                      ELSE /\ UpdateEntry("update_manifest", table_path,
                                          Dependency(name, ans))
                           /\ disk' = [disk EXCEPT ![manifests[mi]] = manifest']
           ELSE Advance("update_manifest") /\ UNCHANGED <<manifest, lookups, disk>>
    /\ UNCHANGED <<argVars, disk0, cacheVars, manifests, mi, opened, written,
                   harnessVars>>

\* update_manifest, body of the inner loop (93-101)
update_manifest_entry == LookupAndUpdate("update_manifest")

update_manifest_open == Open("update_manifest")

\* update_manifest, 104-107
update_manifest_write ==
    /\ pc = "update_manifest.write"
    /\ \E r \in WriteOutcomes :
          IF r = "Ok"
          THEN /\ disk' = [disk EXCEPT ![manifests[mi]] = manifest]
               /\ written' = Append(written, manifests[mi])
               /\ Stop("Ok")
          ELSE /\ Stop(r)
               /\ UNCHANGED <<disk, written>>
    /\ UNCHANGED <<argVars, disk0, cacheVars, manifests, mi, travVars, lookups, opened,
                   harnessVars>>

update_manifest_from_cache_open == Open("update_manifest_from_cache")

update_manifest_from_cache_entry_lookup == LookupAndUpdate("update_manifest_from_cache")

\* the same loop body, but asking the registry again and storing the answer in the
\* cache before reading it
update_manifest_from_cache_entry_asking ==
    /\ pc = "update_manifest_from_cache.entries"
    /\ LET table_path == sections[si][1]
           name       == sections[si][2][ei].name
           old_value  == sections[si][2][ei].value
       IN  IF should_update(only_update, name, old_value)
           THEN \E ans \in RegistryAnswers(name) :
                   /\ lookups' = Append(lookups, [name |-> name, answer |-> ans])
                   /\ IF ans = Fail
                      THEN Stop("Err(registry)") /\ UNCHANGED <<travVars, new_deps>>
                      ELSE /\ new_deps' = insert(new_deps, name, Dependency(name, ans))
                           /\ UpdateEntry("update_manifest_from_cache", table_path,
                                          new_deps'[name])
           ELSE /\ Advance("update_manifest_from_cache")
                /\ UNCHANGED <<manifest, lookups, new_deps>>
    /\ UNCHANGED <<argVars, disk, disk0, todo, ci, manifests, mi, opened, written,
                   harnessVars>>

\* update_manifest_from_cache, body of the inner loop (119-127); indexing the
\* HashMap with a name it does not hold panics
update_manifest_from_cache_entry ==
    /\ pc = "update_manifest_from_cache.entries"
    /\ LET table_path == sections[si][1]
           name       == sections[si][2][ei].name
           old_value  == sections[si][2][ei].value
       IN  IF should_update(only_update, name, old_value)
           THEN IF name \in DOMAIN new_deps
                THEN UpdateEntry("update_manifest_from_cache", table_path, new_deps[name])
                ELSE Stop("panic") /\ UNCHANGED travVars
           ELSE Advance("update_manifest_from_cache") /\ UNCHANGED manifest
    /\ UNCHANGED <<argVars, disk, disk0, cacheVars, manifests, mi, histVars, harnessVars>>

update_manifest_from_cache_write_go_on ==
    /\ pc = "update_manifest_from_cache.write"
    /\ \E r \in WriteOutcomes :
          /\ IF r = "Ok"
             THEN /\ disk' = [disk EXCEPT ![manifests[mi]] = manifest]
                  /\ written' = Append(written, manifests[mi])
             ELSE UNCHANGED <<disk, written>>
          /\ IF mi < Len(manifests)
             THEN /\ mi' = mi + 1
                  /\ pc' = "update_manifest_from_cache"
                  /\ UNCHANGED resultVars
             ELSE Stop(r) /\ UNCHANGED mi
    /\ UNCHANGED <<argVars, disk0, cacheVars, manifests, travVars, lookups, opened,
                   harnessVars>>

\* update_manifest_from_cache, 130-133, and the loop of update_workspace_manifests
\* (203-207): the next manifest, or Ok(()) after the last
update_manifest_from_cache_write ==
    /\ pc = "update_manifest_from_cache.write"
    /\ \E r \in WriteOutcomes :
          IF r = "Ok"
          THEN /\ disk' = [disk EXCEPT ![manifests[mi]] = manifest]
               /\ written' = Append(written, manifests[mi])
               /\ IF mi < Len(manifests)
                  THEN /\ mi' = mi + 1
                       /\ pc' = "update_manifest_from_cache"
                       /\ UNCHANGED resultVars
                  ELSE Stop("Ok") /\ UNCHANGED mi
          ELSE /\ Stop(IF r = "Err(write_to_file)"
                       THEN "Err(Failed to write new manifest contents)" ELSE r)
               /\ UNCHANGED <<disk, written, mi>>
    /\ UNCHANGED <<argVars, disk0, cacheVars, manifests, travVars, lookups, opened,
                   harnessVars>>

(***************************************************************************)
(* A session for comparing the two modes: after a direct run with a        *)
(* selector on a one-package workspace, the same files are given to a      *)
(* workspace run (--all) with the same selector.                           *)
(***************************************************************************)
SameAnswers(ls) == \A i, j \in 1..Len(ls) : ls[i].name = ls[j].name => ls[i].answer = ls[j].answer

run_again_with_all ==
    /\ pc = "done"
    /\ prev = NoRun
    /\ ~flag_all
    /\ only_update # <<>>
    /\ output \in {"Ok", "Err(registry)"}
    /\ SameAnswers(lookups)
    /\ prev' = [output |-> output, disk |-> disk, lookups |-> lookups]
    /\ flag_all' = TRUE
    /\ disk' = disk0
    /\ pc' = "main"
    /\ output' = "running" /\ exit_code' = -1 /\ stderr' = <<>>
    /\ todo' = <<>> /\ ci' = 1 /\ new_deps' = EmptyMap
    /\ manifests' = <<>> /\ mi' = 1
    /\ manifest' = <<>> /\ sections' = <<>> /\ si' = 1 /\ ei' = 1
    /\ lookups' = <<>> /\ opened' = <<>> /\ written' = <<>>
    /\ UNCHANGED <<only_update, disk0, dep, verdict>>

Init ==
    /\ flag_all \in BOOLEAN
    /\ only_update \in Selectors
    /\ disk \in UNION {Workspaces(k, MaxEntries) :
                          k \in 1..(IF flag_all THEN MaxManifests ELSE 1)}
    /\ disk0 = disk
    /\ pc = "main"
    /\ output = "running" /\ exit_code = -1 /\ stderr = <<>>
    /\ todo = <<>> /\ ci = 1 /\ new_deps = EmptyMap
    /\ manifests = <<>> /\ mi = 1
    /\ manifest = <<>> /\ sections = <<>> /\ si = 1 /\ ei = 1
    /\ lookups = <<>> /\ opened = <<>> /\ written = <<>>
    /\ prev = NoRun
    /\ dep = NoDep /\ verdict = "unasked"

Next ==
    \/ main
    \/ get_specified_new_deps
    \/ get_all_new_deps
    \/ get_workspace_manifests
    \/ update_manifest_open
    \/ update_manifest_entry
    \/ update_manifest_write
    \/ update_manifest_from_cache_open
    \/ update_manifest_from_cache_entry
    \/ update_manifest_from_cache_write
    \/ run_again_with_all

Spec == Init /\ [][Next]_vars

(***************************************************************************)
(* The eligibility filter on its own: any raw value, one application.      *)
(***************************************************************************)
InitFilter ==
    /\ dep \in AllValues
    /\ verdict = "unasked"
    /\ pc = "is_version_dependency"
    /\ flag_all = FALSE /\ only_update = <<>>
    /\ disk = <<>> /\ disk0 = <<>>
    /\ output = "running" /\ exit_code = -1 /\ stderr = <<>>
    /\ todo = <<>> /\ ci = 1 /\ new_deps = EmptyMap
    /\ manifests = <<>> /\ mi = 1
    /\ manifest = <<>> /\ sections = <<>> /\ si = 1 /\ ei = 1
    /\ lookups = <<>> /\ opened = <<>> /\ written = <<>>
    /\ prev = NoRun

apply_filter ==
    /\ pc = "is_version_dependency"
    /\ verdict = "unasked"
    /\ verdict' = IF is_version_dependency(dep) THEN "eligible" ELSE "ineligible"
    /\ UNCHANGED <<argVars, disk, disk0, pc, resultVars, cacheVars, manifests, mi, travVars,
                   histVars, prev, dep>>

NextFilter == apply_filter

SpecFilter == InitFilter /\ [][NextFilter]_vars

(***************************************************************************)
(* The cached updater on its own: one manifest, any selector, any cache,   *)
(* also caches that do not hold every name the manifest declares.          *)
(***************************************************************************)
Caches ==
    UNION {[keys -> Versions] : keys \in SUBSET Names}

AsDependencies(cache) == [n \in DOMAIN cache |-> Dependency(n, cache[n])]

InitCached ==
    /\ flag_all = TRUE
    /\ only_update \in Selectors
    /\ disk \in Workspaces(1, MaxEntries)
    /\ disk0 = disk
    /\ new_deps \in {AsDependencies(cache) : cache \in Caches}
    /\ todo = <<>> /\ ci = 1
    /\ manifests = manifest_paths(disk) /\ mi = 1
    /\ pc = "update_manifest_from_cache"
    /\ output = "running" /\ exit_code = -1 /\ stderr = <<>>
    /\ manifest = <<>> /\ sections = <<>> /\ si = 1 /\ ei = 1
    /\ lookups = <<>> /\ opened = <<>> /\ written = <<>>
    /\ prev = NoRun
    /\ dep = NoDep /\ verdict = "unasked"

NextCached ==
    \/ update_manifest_from_cache_open
    \/ update_manifest_from_cache_entry
    \/ update_manifest_from_cache_write

SpecCached == InitCached /\ [][NextCached]_vars

TypeOK ==
    /\ pc \in {"main", "get_specified_new_deps", "get_all_new_deps",
               "get_workspace_manifests", "update_manifest", "update_manifest.entries",
               "update_manifest.write", "update_manifest_from_cache",
               "update_manifest_from_cache.entries", "update_manifest_from_cache.write",
               "done"}
    /\ (pc = "done") = (output # "running")
    /\ (pc = "done") = (exit_code # -1)

(***************************************************************************)
(* Vocabulary of the properties, stated on the data alone.                 *)
(***************************************************************************)
\* registry-eligible: carries neither `git` nor `path`
RegistryEligible(v) == ~(v.table /\ ({"git", "path"} \cap v.keys # {}))
\* the name passes the selector
InSelector(name) == only_update = <<>> \/ \E k \in 1..Len(only_update) : only_update[k] = name
\* the entries an upgrade is to touch
Selected(e) == InSelector(e.name) /\ RegistryEligible(e.value)

\* the positions (section, entry) of a manifest
Positions(m) == UNION {{<<i, j>> : j \in 1..Len(m[i].entries)} : i \in 1..Len(m)}
At(m, q) == m[q[1]].entries[q[2]]
SameShape(m, n) ==
    /\ Len(m) = Len(n)
    /\ \A i \in 1..Len(m) : m[i].path = n[i].path /\ Len(m[i].entries) = Len(n[i].entries)
    /\ \A q \in Positions(m) : At(m, q).name = At(n, q).name

\* how many selected entries the traversal meets up to position q
Rank(m, q) ==
    Cardinality({r \in Positions(m) :
                    /\ Selected(At(m, r))
                    /\ (r[1] < q[1] \/ (r[1] = q[1] /\ r[2] <= q[2]))})

\* C1: once an updater has returned success for a manifest (it is written), every
\* selected registry-eligible entry of it holds the version the resolver returned
\* for its name (direct mode: the answer of the lookup made for that entry; cached
\* mode: the cache's specifier), and with a non-empty selector an entry whose name
\* is not in the selector is as it was.
C1_SelectedEntriesHoldResolved ==
    \A k \in 1..Len(written) :
       LET p == written[k] IN
       /\ SameShape(disk0[p], disk[p])
       /\ \A q \in Positions(disk0[p]) :
             IF Selected(At(disk0[p], q))
             THEN IF flag_all
                  THEN /\ At(disk0[p], q).name \in DOMAIN new_deps
                       /\ At(disk[p], q).value.req = new_deps[At(disk0[p], q).name].version
                  ELSE /\ Rank(disk0[p], q) <= Len(lookups)
                       /\ lookups[Rank(disk0[p], q)].name = At(disk0[p], q).name
                       /\ At(disk[p], q).value.req = lookups[Rank(disk0[p], q)].answer
             ELSE ~InSelector(At(disk0[p], q).name) => At(disk[p], q) = At(disk0[p], q)

\* a successful run with selector <<x>> that gave a selected entry a new version
\* and met another eligible entry outside the selector
C1_Witness ==
    /\ output = "Ok"
    /\ Len(only_update) = 1
    /\ \E p \in Range(written) : \E q, r \in Positions(disk0[p]) :
          /\ Selected(At(disk0[p], q))
          /\ At(disk[p], q).value.req \in Versions
          /\ RegistryEligible(At(disk0[p], r).value)
          /\ ~InSelector(At(disk0[p], r).name)

\* C2: frame condition.  In every manifest file, and in the manifest an updater
\* holds in memory, an entry that is not registry-eligible or whose name does not
\* pass the selector has the value it was loaded with.
C2_UnselectedEntriesUntouched ==
    /\ \A p \in 1..Len(disk0) :
          /\ SameShape(disk0[p], disk[p])
          /\ \A q \in Positions(disk0[p]) :
                ~Selected(At(disk0[p], q)) => At(disk[p], q) = At(disk0[p], q)
    /\ pc \in {"update_manifest.entries", "update_manifest.write",
               "update_manifest_from_cache.entries", "update_manifest_from_cache.write"}
       => /\ SameShape(disk0[manifests[mi]], manifest)
          /\ \A q \in Positions(manifest) :
                ~Selected(At(disk0[manifests[mi]], q))
                   => At(manifest, q) = At(disk0[manifests[mi]], q)

\* a written manifest in which a selected entry changed beside a `path` entry
C2_Witness ==
    \E p \in Range(written) : \E q, r \in Positions(disk0[p]) :
       /\ At(disk[p], q) # At(disk0[p], q)
       /\ "path" \in At(disk0[p], r).value.keys
       /\ InSelector(At(disk0[p], r).name)

\* C3: is_version_dependency answers ineligible exactly for a table holding a `git`
\* or a `path` key: eligible for every bare string and for every table with
\* neither key, whatever else it holds.
C3_FilterIsGitOrPath ==
    verdict # "unasked" =>
       /\ (verdict = "ineligible") = (dep.table /\ ("git" \in dep.keys \/ "path" \in dep.keys))
       /\ (verdict = "eligible") = (~dep.table \/ ("git" \notin dep.keys /\ "path" \notin dep.keys))

\* a table with `version` and other attributes, but no source key, found eligible
C3_Witness ==
    /\ verdict = "eligible"
    /\ dep.table
    /\ {"version", "features", "optional"} \subseteq dep.keys

\* the names a package declares, whatever their source
DeclaredNames(m) == {At(m, q).name : q \in Positions(m)}
\* the names declared registry-eligible somewhere in the workspace
EligibleNames == {n \in Names : \E p \in 1..Len(disk0) : \E q \in Positions(disk0[p]) :
                     At(disk0[p], q).name = n /\ RegistryEligible(At(disk0[p], q).value)}
\* how often the registry was asked for a name
LookupCount(n) == Cardinality({i \in 1..Len(lookups) : lookups[i].name = n})
\* a workspace run has its cache: construction returned Ok
CacheBuilt ==
    /\ flag_all
    /\ pc \notin {"main", "get_specified_new_deps", "get_all_new_deps"}
    /\ pc = "done" => opened # <<>>

\* C4 (as claimed): in direct mode and in full-workspace mode (--all without
\* --dependency) the registry is asked only for names declared registry-eligible;
\* a name declared only with `git` or `path` is never looked up.
C4_LookupsOnlyForRegistryDeps ==
    (~flag_all \/ only_update = <<>>) =>
       \A i \in 1..Len(lookups) : lookups[i].name \in EligibleNames

\* C5: in full-workspace mode no name is looked up twice, and once the cache is
\* built the registry has been asked exactly once for every name some package
\* declares and for no other, and the cache's keys are those names.
C5_OneLookupPerDistinctName ==
    (flag_all /\ only_update = <<>>) =>
       /\ \A n \in Names : LookupCount(n) <= 1
       /\ CacheBuilt =>
             LET union == UNION {DeclaredNames(disk0[p]) : p \in 1..Len(disk0)} IN
             /\ DOMAIN new_deps = union
             /\ \A n \in Names : LookupCount(n) = IF n \in union THEN 1 ELSE 0
             /\ Len(lookups) = Cardinality(union)

\* packages declaring {a, b} and {a}: the cache is built with two lookups
C5_Witness ==
    /\ CacheBuilt
    /\ only_update = <<>>
    /\ Len(disk0) = 2
    /\ DeclaredNames(disk0[1]) = {"a", "b"}
    /\ DeclaredNames(disk0[2]) = {"a"}
    /\ Len(lookups) = 2

\* C6 (as claimed): in explicit-selector mode (--all with --dependency) no name is
\* looked up more than once, whatever the selector lists.
C6_SelectorLookupsAtMostOnce ==
    (flag_all /\ only_update # <<>>) => \A n \in Names : LookupCount(n) <= 1

\* every entry there is: in the files and in the manifest an updater holds
AllEntries ==
    UNION {{At(disk[p], q) : q \in Positions(disk[p])} : p \in 1..Len(disk)}
       \cup {At(manifest, q) : q \in Positions(manifest)}
\* the versions that updates have given to entries named n
UpdatedReqs(n) == {e.value.req : e \in {x \in AllEntries : x.name = n /\ x.value.req \in Versions}}

\* C7: in a workspace run all updated entries of one name hold the same version,
\* in every manifest and section, whatever the registry answered and when.
C7_SameNameSameVersion ==
    flag_all => \A n \in Names : Cardinality(UpdatedReqs(n)) <= 1

\* the registry gave two different versions for one name during the run, and
\* entries of that name were updated in two manifests
C7_Witness ==
    /\ flag_all
    /\ output = "Ok"
    /\ \E i, j \in 1..Len(lookups) :
          /\ lookups[i].name = lookups[j].name
          /\ lookups[i].answer # lookups[j].answer
          /\ \E p, r \in 1..Len(disk) :
                /\ p # r
                /\ \E q \in Positions(disk[p]) :
                      At(disk[p], q).name = lookups[i].name /\ At(disk[p], q).value.req \in Versions
                /\ \E q \in Positions(disk[r]) :
                      At(disk[r], q).name = lookups[i].name /\ At(disk[r], q).value.req \in Versions

\* C8: in a workspace run no manifest is opened or written before the cache is
\* complete, and a failed lookup during construction ends the run with the
\* registry's error: it is the last lookup, the partial cache is gone, and no
\* manifest has been opened, written or changed.
C8_CacheBeforeManifests ==
    flag_all =>
       /\ (opened # <<>> \/ written # <<>> \/ manifest # <<>> \/ disk # disk0) =>
             /\ ci > Len(todo)
             /\ Range(todo) \subseteq DOMAIN new_deps
             /\ \A i \in 1..Len(lookups) : lookups[i].answer # Fail
       /\ \A i \in 1..Len(lookups) :
             lookups[i].answer = Fail =>
                /\ i = Len(lookups)
                /\ pc = "done" /\ output = "Err(registry)"
                /\ new_deps = EmptyMap
                /\ opened = <<>> /\ written = <<>> /\ manifest = <<>> /\ disk = disk0

\* full-workspace construction whose second lookup fails after a first succeeded
C8_Witness ==
    /\ flag_all
    /\ only_update = <<>>
    /\ Len(lookups) = 2
    /\ lookups[1].answer # Fail
    /\ lookups[2].answer = Fail
    /\ output = "Err(registry)"

\* a workspace run that failed while updating a manifest
FailedAtManifest == flag_all /\ pc = "done" /\ output # "Ok" /\ opened # <<>>

\* C9: when updating the k-th manifest fails, the run ends with that updater's
\* error; the manifests before k were opened and written once each and hold their
\* updated content, and no manifest after k was opened, written or changed.
C9_FailFast ==
    FailedAtManifest =>
       LET k == Len(opened) IN
       /\ mi = k
       /\ opened = [i \in 1..k |-> manifests[i]]
       /\ written = [i \in 1..(k - 1) |-> manifests[i]]
       /\ output \in {"Err(open)", "Err(update_table_entry)", "Err(find_file)",
                      "Err(Failed to write new manifest contents)"}
       /\ \A i \in 1..(k - 1) : \A q \in Positions(disk0[manifests[i]]) :
             IF Selected(At(disk0[manifests[i]], q))
             THEN At(disk[manifests[i]], q).value.req =
                     new_deps[At(disk0[manifests[i]], q).name].version
             ELSE At(disk[manifests[i]], q) = At(disk0[manifests[i]], q)
       /\ \A i \in (k + 1)..Len(manifests) : disk[manifests[i]] = disk0[manifests[i]]

\* the second manifest fails to write after its entry was updated in memory: the
\* first manifest stays written with its update
C9_Witness ==
    /\ FailedAtManifest
    /\ output = "Err(Failed to write new manifest contents)"
    /\ Len(opened) = 2
    /\ written = <<1>>
    /\ disk[1] # disk0[1]
    /\ manifest # disk0[2]

\* C10 (as claimed): a direct run and a workspace run over the same one-package
\* workspace, with the same non-empty selector, equal registry answers and a
\* healthy file system, end with the same outcome and the same manifest content.
C10_DirectAndCachedAgree ==
    (pc = "done" /\ prev # NoRun) => (output = prev.output /\ disk = prev.disk)

\* C11: in direct mode the file is written only after the whole traversal: while
\* entries are being updated the file is as it was, and a run that a failed lookup
\* or a failed entry update ends has written nothing, whatever it had already
\* updated in memory.
C11_DirectWritesOnlyAtTheEnd ==
    ~flag_all =>
       /\ pc \in {"update_manifest", "update_manifest.entries", "update_manifest.write"}
             => (disk = disk0 /\ written = <<>>)
       /\ output \in {"Err(registry)", "Err(update_table_entry)"}
             => (pc = "done" /\ disk = disk0 /\ written = <<>>)
       /\ written # <<>> => (output = "Ok" /\ disk[1] = manifest)

\* the second lookup of a direct run fails after the first entry was updated in
\* memory
C11_Witness ==
    /\ ~flag_all
    /\ output = "Err(registry)"
    /\ Len(lookups) = 2
    /\ manifest # disk0[1]
    /\ disk = disk0

\* the cached updater stands at a selected registry-eligible entry whose name the
\* cache does not hold
AtMissingName ==
    /\ pc = "update_manifest_from_cache.entries"
    /\ Selected(sections[si][2][ei])
    /\ sections[si][2][ei].name \notin DOMAIN new_deps

TargetedNames == UNION {DeclaredNames(disk0[p]) : p \in 1..Len(disk0)}

\* C13: the selector is a filter, not a requirement: a run never fails on account
\* of a selector name that no targeted manifest declares, so the lookup that
\* ends a run with a registry error is the lookup of a declared name.
C13_UndeclaredSelectorNameIsHarmless ==
    (pc = "done" /\ output = "Err(registry)")
        => lookups[Len(lookups)].name \in TargetedNames

\* C14: the process exits with status 0 exactly when the run returned Ok, which it
\* does only after writing every targeted manifest; every error ends it with a
\* non-zero status and with the error reported on stderr, and nothing is written
\* to stderr by a run that succeeds.
C14_ExitStatus ==
    pc = "done" =>
       /\ (exit_code = 0) = (output = "Ok")
       /\ output = "Ok" => (written = [p \in 1..Len(disk0) |-> p] /\ stderr = <<>>)
       /\ output # "Ok" => (exit_code > 0 /\ stderr # <<>> /\ stderr[Len(stderr)] = output)

\* a workspace run that fails at its second manifest after writing the first
C14_Witness ==
    /\ pc = "done"
    /\ exit_code = 1
    /\ stderr = <<"Command failed due to unhandled error", "Err(open)">>
    /\ written = <<1>>

\* C15: in a workspace run, once the first manifest has been opened no step asks
\* the registry and no step changes the cache.
C15_NoLookupAfterFirstOpen ==
    [][(flag_all /\ opened # <<>>) => (lookups' = lookups /\ new_deps' = new_deps)]_vars

\* a workspace run has opened its second manifest and updated entries of both
\* from a cache that two lookups built
C15_Witness ==
    /\ flag_all
    /\ pc = "update_manifest_from_cache.write"
    /\ Len(opened) = 2
    /\ Len(lookups) = 2
    /\ disk[1] # disk0[1]
    /\ manifest # disk0[2]

\* the manifest paths in the order discovery returns them
DiscoveryOrder == [p \in 1..Len(disk0) |-> p]
IsPrefix(s, t) == Len(s) <= Len(t) /\ \A i \in 1..Len(s) : s[i] = t[i]
\* the errors a collaborator's failure gives the run
CollaboratorErrors ==
    {"Err(Failed to get metadata)", "Err(registry)", "Err(open)",
     "Err(update_table_entry)", "Err(find_file)",
     "Err(Failed to write new manifest contents)"}

\* the entries the traversal has still to visit in the open manifest
Remaining ==
    SumLen([s \in 1..(Len(sections) + 1 - si) |-> sections[si + s - 1][2]]) + 1 - ei
\* more steps than one manifest can take: its open, its entries, its write
ManifestSteps == MaxSections * MaxEntries + 2
\* a bound on the steps a workspace run has still to take
Measure ==
    CASE pc = "done" -> 0
      [] pc = "update_manifest_from_cache.write" ->
            (Len(manifests) - mi) * ManifestSteps + 1
      [] pc = "update_manifest_from_cache.entries" ->
            (Len(manifests) - mi) * ManifestSteps + 1 + Remaining
      [] pc = "update_manifest_from_cache" ->
            (Len(manifests) - mi + 1) * ManifestSteps
      [] pc = "get_workspace_manifests" ->
            Len(disk) * ManifestSteps + 1
      [] pc \in {"get_specified_new_deps", "get_all_new_deps"} ->
            Len(disk) * ManifestSteps + 2 + (Len(todo) + 1 - ci)
      [] OTHER ->
            Len(disk) * ManifestSteps + 3 + Len(disk) * MaxSections * MaxEntries + MaxSel

\* C16: a workspace run terminates: until the process has exited a step can be
\* taken, and every step lowers a natural number. Nothing but the failure of a
\* collaborator's call keeps the run from success. It hands the manifest paths to
\* the cached updater in discovery order, each once, and writes each manifest once
\* before the next is opened, so that a run that succeeds has opened and written
\* every discovered manifest exactly once, in discovery order.
C16_WorkspaceRunCompletes ==
    /\ [](flag_all =>
            /\ IsPrefix(opened, DiscoveryOrder)
            /\ IsPrefix(written, opened)
            /\ Len(opened) <= Len(written) + 1
            /\ Measure \in Nat
            /\ pc # "done" => ENABLED Next
            /\ pc = "done" => output \in {"Ok"} \cup CollaboratorErrors
            /\ output = "Ok" => (opened = DiscoveryOrder /\ written = DiscoveryOrder))
    /\ [][flag_all => Measure' < Measure]_vars

\* a workspace run over two manifests has succeeded, having updated both
C16_Witness ==
    /\ flag_all
    /\ output = "Ok"
    /\ written = <<1, 2>>
    /\ disk[1] # disk0[1]
    /\ disk[2] # disk0[2]

\* C17: in a workspace run with a selector, the cache that construction returns
\* has exactly the selector's names as its keys; every entry the cached updater
\* updates has its name in the cache, and the run never ends in the missing-name
\* fault.
C17_SelectorCacheHoldsSelectedNames ==
    (flag_all /\ only_update # <<>>) =>
       /\ CacheBuilt => DOMAIN new_deps = Range(only_update)
       /\ (pc = "update_manifest_from_cache.entries" /\ Selected(sections[si][2][ei]))
             => sections[si][2][ei].name \in DOMAIN new_deps
       /\ output # "panic"

\* a workspace run with a selector of two names has succeeded and updated entries
C17_Witness ==
    /\ flag_all
    /\ Len(only_update) = 2
    /\ DOMAIN new_deps = {only_update[1], only_update[2]}
    /\ only_update[1] # only_update[2]
    /\ output = "Ok"
    /\ disk # disk0

\* the selected registry-eligible entries of the manifest a direct run is given
SelectedPositions == {q \in Positions(disk0[1]) : Selected(At(disk0[1], q))}

\* C18: a direct run asks the registry once for every selected registry-eligible
\* entry it visits, in traversal order and without remembering names: the k-th
\* lookup is for the k-th such entry, a run that succeeds has made as many
\* lookups as there are such entries, and a failed lookup is the last one.
C18_OneLookupPerEntryVisited ==
    ~flag_all =>
       /\ Len(lookups) <= Cardinality(SelectedPositions)
       /\ \A q \in SelectedPositions :
             Rank(disk0[1], q) <= Len(lookups)
                => lookups[Rank(disk0[1], q)].name = At(disk0[1], q).name
       /\ output = "Ok" => Len(lookups) = Cardinality(SelectedPositions)
       /\ \A i \in 1..Len(lookups) :
             lookups[i].answer = Fail
                => (i = Len(lookups) /\ pc = "done" /\ output = "Err(registry)")

\* a direct run has succeeded after asking twice for a name that two sections
\* declare, and got two different answers
C18_Witness ==
    /\ ~flag_all
    /\ output = "Ok"
    /\ Len(lookups) = 2
    /\ lookups[1].name = lookups[2].name
    /\ lookups[1].answer # lookups[2].answer
====
